---- MODULE Spec2Model ----
(***************************************************************************)
(* Model of the GPU resource wrappers of src/src/objects.rs (Shader,       *)
(* Program, create_program, Vbo, Ibo, Vao, Uniform) and of the event loop  *)
(* of src/src/main.rs, run against a model of the OpenGL context they      *)
(* call into.                                                              *)
(*                                                                         *)
(* The context is the record gl.  Every wrapper operation is one action    *)
(* that threads gl through the driver calls the Rust code makes, in the    *)
(* order the code makes them; gl.calls keeps the calls of the operation    *)
(* that ran last, so that the order of the calls can be stated.            *)
(***************************************************************************)
EXTENDS Integers, Sequences, FiniteSets, TLC

VARIABLES
    gl,        \* the OpenGL context: objects, current bindings, calls of the last operation
    shaders,   \* the Shader values the client owns (their id fields), in creation order
    programs,  \* the Program values the client owns
    uniforms,  \* the Uniform values the client owns
    resolved,  \* for each of them, the program and name it was resolved with (not in the code)
    vbos,      \* the Vbo values the client owns
    ibos,      \* the Ibo values the client owns
    vaos,      \* the Vao values the client owns
    ret,       \* what the last operation returned
    pc,        \* position of main()
    mn         \* the locals of main()

vars == <<gl, shaders, programs, uniforms, resolved, vbos, ibos, vaos, ret, pc, mn>>

----------------------------------------------------------------------------
(* Bounds of the model *)

\* names the driver hands out for shader and program objects (one name space)
MaxName == 6
\* how many of the unused names, lowest first, the driver may choose a new name from
NameChoice == 1
\* most shader and program objects the client of ShaderSpec lets exist at a time
MaxObjects == 3
\* names the driver hands out for buffer objects
MaxBuf == 2
\* names the driver hands out for vertex arrays
MaxVao == 1
\* longest driver diagnostic, in characters
MaxLog == 1
\* longest sequence uploaded to a buffer
MaxLen == 1
\* most values of one wrapper type the client holds at a time
MaxHeld == 2
\* most Uniform values the client holds at a time
MaxUniforms == 1
\* most frames main() renders
MaxFrames == 2

Names == 1 .. MaxName
BufNames == 1 .. MaxBuf
VaoNames == 1 .. MaxVao

\* gl::VERTEX_SHADER, gl::FRAGMENT_SHADER, and a GLenum that is no shader type
ValidKinds == {"VERTEX_SHADER", "FRAGMENT_SHADER"}
Kinds == ValidKinds \cup {"BAD_ENUM"}

RECURSIVE SeqsUpTo(_, _)
SeqsUpTo(S, n) ==
    IF n = 0 THEN {<<>>}
    ELSE LET shorter == SeqsUpTo(S, n - 1)
         IN  shorter \cup {Append(s, x) : s \in {t \in shorter : Len(t) = n - 1}, x \in S}

\* the diagnostics the driver may produce
Logs == SeqsUpTo({"e", "r"}, MaxLog)

NUL == "NUL"
SPACE == " "

----------------------------------------------------------------------------
(* The OpenGL context *)

\* The uniforms of the shaders main() loads, and a name no program declares
UniformNames == {"u_time", "u_resolution", "u_missing"}
\* the glUniform* call that fits each uniform: u_time is a float, u_resolution a vec2
UniformType == [n \in UniformNames |-> IF n = "u_resolution" THEN "2f" ELSE "1f"]
Locs == {0, 1}
\* -1: the name is no active uniform of the program
NoLayout == [n \in UniformNames |-> -1]
\* the location assignments a link may produce: both uniforms active, or u_time
\* unused by the shader, optimised away, and u_resolution in its place
Layouts ==
    { [n \in UniformNames |-> CASE n = "u_time" -> 0 [] n = "u_resolution" -> 1 [] OTHER -> -1],
      [n \in UniformNames |-> CASE n = "u_resolution" -> 0 [] OTHER -> -1] }
\* the values of a program's uniforms, by location: <<x>> for a float, <<x, y>> for
\* a vec2, <<>> at a location that holds no uniform; a link sets them to zero
NoUniforms == [l \in Locs |-> <<>>]
TypeAt(layout, loc) ==
    IF \E n \in UniformNames : layout[n] = loc
    THEN UniformType[CHOOSE n \in UniformNames : layout[n] = loc]
    ELSE "none"
ZeroUniforms(layout) ==
    [l \in Locs |-> CASE TypeAt(layout, l) = "1f" -> <<0>>
                      [] TypeAt(layout, l) = "2f" -> <<0, 0>>
                      [] OTHER -> <<>>]

\* a buffer name: "free", "named" (generated, never bound) or "object"; its data
\* store holds the uploaded records and their size in bytes
NoBuffer == [st |-> "free", data |-> <<>>, size |-> 0]
Attribs == {0, 1, 2}
NoAttrib == [enabled |-> FALSE, buf |-> 0, size |-> 0, stride |-> 0, offset |-> 0]
\* a vertex array: its element buffer binding and its attribute slots
NoVao == [st |-> "free", elem |-> 0, attr |-> [a \in Attribs |-> NoAttrib]]

GlInit ==
    [ kind     |-> [n \in Names |-> "free"],     \* "free", "shader" or "program"
      flagged  |-> [n \in Names |-> FALSE],      \* deletion requested, object still referenced
      attached |-> [n \in Names |-> {}],         \* the shaders attached to a program
      linked   |-> [n \in Names |-> FALSE],      \* a program's LINK_STATUS
      layout   |-> [n \in Names |-> NoLayout],   \* a linked program's uniform locations
      uni      |-> [n \in Names |-> NoUniforms], \* a program's uniform values
      progCur  |-> 0,                            \* current program
      buf      |-> [b \in BufNames |-> NoBuffer],    \* buffer objects
      arrayBuf |-> 0,                            \* current ARRAY_BUFFER binding
      vao      |-> [v \in {0} \cup VaoNames |-> NoVao], \* vertex arrays; 0 is the default one
      vaoCur   |-> 0,                            \* current vertex array
      calls    |-> <<>> ]

\* the driver call f(a), accepted (ok) or rejected with a GL error
Call(g, f, a, ok) == [g EXCEPT !.calls = Append(@, [f |-> f, a |-> a, ok |-> ok])]

FreeNames(g) == {n \in Names : g.kind[n] = "free"}
\* the names the driver may hand out next: unused ones, the lowest NameChoice of them
Lowest(S, k) == {n \in S : Cardinality({m \in S : m < n}) < k}
FreshNames(g) == Lowest(FreeNames(g), NameChoice)
IsShader(g, id) == id \in Names /\ g.kind[id] = "shader"
IsProgram(g, id) == id \in Names /\ g.kind[id] = "program"
\* an object that exists and whose deletion was not requested
LiveShader(g, id) == IsShader(g, id) /\ ~g.flagged[id]
LiveProgram(g, id) == IsProgram(g, id) /\ ~g.flagged[id]

Release(g, id) ==
    [g EXCEPT !.kind[id] = "free", !.flagged[id] = FALSE,
              !.attached[id] = {}, !.linked[id] = FALSE,
              !.layout[id] = NoLayout, !.uni[id] = NoUniforms]

\* glCreateShader: a fresh name, or 0 with GL_INVALID_ENUM for a kind that is no shader type
glCreateShader(g, kind, id) ==
    IF kind \in ValidKinds
    THEN Call([g EXCEPT !.kind[id] = "shader"], "CreateShader", kind, TRUE)
    ELSE Call(g, "CreateShader", kind, FALSE)

\* glShaderSource and glCompileShader: GL_INVALID_VALUE for a name that is no object
glShaderSource(g, id) == Call(g, "ShaderSource", id, IsShader(g, id))
glCompileShader(g, id) == Call(g, "CompileShader", id, IsShader(g, id))

\* glGetShaderiv: writes the parameter only for a shader object; otherwise the
\* caller's variable keeps the value cur
glGetShaderiv(g, id, pname) == Call(g, "GetShaderiv", <<id, pname>>, IsShader(g, id))
GetShaderivValue(g, id, value, cur) == IF IsShader(g, id) THEN value ELSE cur

glGetShaderInfoLog(g, id) == Call(g, "GetShaderInfoLog", id, IsShader(g, id))

\* glDeleteShader: 0 is ignored; a shader attached to a program is only flagged
glDeleteShader(g, id) ==
    IF id = 0 THEN Call(g, "DeleteShader", id, TRUE)
    ELSE IF ~IsShader(g, id) THEN Call(g, "DeleteShader", id, FALSE)
    ELSE IF \E p \in Names : g.kind[p] = "program" /\ id \in g.attached[p]
         THEN Call([g EXCEPT !.flagged[id] = TRUE], "DeleteShader", id, ~g.flagged[id])
         ELSE Call(Release(g, id), "DeleteShader", id, TRUE)

\* glCreateProgram: a fresh name of the name space shaders and programs share
glCreateProgram(g, id) == Call([g EXCEPT !.kind[id] = "program"], "CreateProgram", id, TRUE)

\* glAttachShader: rejected unless program and shader exist and are not yet attached
glAttachShader(g, prog, sh) ==
    IF IsProgram(g, prog) /\ IsShader(g, sh) /\ sh \notin g.attached[prog]
    THEN Call([g EXCEPT !.attached[prog] = @ \cup {sh}], "AttachShader", <<prog, sh>>, TRUE)
    ELSE Call(g, "AttachShader", <<prog, sh>>, FALSE)

\* glLinkProgram: the driver decides the outcome, status, and keeps it as LINK_STATUS;
\* a successful link assigns the locations of the active uniforms (layout) and
\* sets every uniform to zero
glLinkProgram(g, prog, status, layout) ==
    IF IsProgram(g, prog)
    THEN Call([g EXCEPT !.linked[prog] = (status # 0),
                        !.layout[prog] = IF status # 0 THEN layout ELSE NoLayout,
                        !.uni[prog] = IF status # 0 THEN ZeroUniforms(layout) ELSE NoUniforms],
              "LinkProgram", prog, TRUE)
    ELSE Call(g, "LinkProgram", prog, FALSE)

glGetProgramiv(g, id, pname) == Call(g, "GetProgramiv", <<id, pname>>, IsProgram(g, id))
GetProgramivValue(g, id, value, cur) == IF IsProgram(g, id) THEN value ELSE cur

glGetProgramInfoLog(g, id) == Call(g, "GetProgramInfoLog", id, IsProgram(g, id))

\* the program object goes away: its shaders are detached, and those whose
\* deletion was pending and that no other program holds go away with it
Destroy(g, prog) ==
    LET others == UNION {g.attached[p] : p \in {q \in Names : g.kind[q] = "program" /\ q # prog}}
        gone   == {s \in g.attached[prog] : g.flagged[s] /\ s \notin others}
    IN  [g EXCEPT !.kind     = [n \in Names |-> IF n = prog \/ n \in gone THEN "free" ELSE @[n]],
                  !.flagged  = [n \in Names |-> IF n = prog \/ n \in gone THEN FALSE ELSE @[n]],
                  !.attached = [n \in Names |-> IF n = prog THEN {} ELSE @[n]],
                  !.linked   = [n \in Names |-> IF n = prog THEN FALSE ELSE @[n]],
                  !.layout   = [n \in Names |-> IF n = prog THEN NoLayout ELSE @[n]],
                  !.uni      = [n \in Names |-> IF n = prog THEN NoUniforms ELSE @[n]]]

\* glDeleteProgram: 0 is ignored; the current program is only flagged for deletion
\* and stays the current program
glDeleteProgram(g, id) ==
    IF id = 0 THEN Call(g, "DeleteProgram", id, TRUE)
    ELSE IF ~IsProgram(g, id) THEN Call(g, "DeleteProgram", id, FALSE)
    ELSE IF g.progCur = id
         THEN Call([g EXCEPT !.flagged[id] = TRUE], "DeleteProgram", id, TRUE)
         ELSE Call(Destroy(g, id), "DeleteProgram", id, TRUE)

\* glUseProgram: rejected for a name that is no linked program; a program whose
\* deletion was pending goes away when it stops being current
glUseProgram(g, id) ==
    IF id # 0 /\ ~(IsProgram(g, id) /\ g.linked[id])
    THEN Call(g, "UseProgram", id, FALSE)
    ELSE LET old == g.progCur
             g1  == [g EXCEPT !.progCur = id]
             g2  == IF old # 0 /\ old # id /\ g.flagged[old] THEN Destroy(g1, old) ELSE g1
         IN  Call(g2, "UseProgram", id, TRUE)

----------------------------------------------------------------------------
(* Diagnostic text: objects.rs 118-122 and the length-then-text protocol *)

Min(a, b) == IF a < b THEN a ELSE b

\* INFO_LOG_LENGTH: the length of the log with its terminator, 0 for no log
InfoLogLength(log) == IF log = <<>> THEN 0 ELSE Len(log) + 1

\* vec![b' '; len], push(0), and the terminator CString::from_vec_unchecked appends
create_whitespace_cstring_with_len(len) == [i \in 1 .. len |-> SPACE] \o <<NUL>> \o <<NUL>>

\* glGet*InfoLog(id, bufSize, NULL, buf): at most bufSize - 1 characters, then a terminator
InfoLogInto(buf, bufSize, log) ==
    IF bufSize <= 0 THEN buf
    ELSE LET n == Min(bufSize - 1, Len(log))
         IN  [i \in 1 .. Len(buf) |-> IF i <= n THEN log[i] ELSE IF i = n + 1 THEN NUL ELSE buf[i]]

\* CStr::to_string_lossy: every byte of the CString but its terminator
to_string_lossy(cstring) == SubSeq(cstring, 1, Len(cstring) - 1)

----------------------------------------------------------------------------
(* objects.rs: Shader and Program.  Each operation yields the context after *)
(* it and its result; id, status and log are what the driver answers.       *)

\* the name gl::CreateShader returns: 0 for a kind that is no shader type
CreatedShader(kind, drv) == IF kind \in ValidKinds THEN drv.fresh ELSE 0

\* the failure branch of Shader::from_source without its gl::DeleteShader
Shader_failed_leak(g, id, len, log) ==
    LET g4    == glGetShaderiv(g, id, "INFO_LOG_LENGTH")
        error == InfoLogInto(create_whitespace_cstring_with_len(len), len, log)
        g5    == glGetShaderInfoLog(g4, id)
    IN  [gl |-> g5, ok |-> FALSE, id |-> id, err |-> to_string_lossy(error)]

\* the failure branch of Shader::from_source: g is the context after the status
\* query, len what the length query leaves in `len`, log the driver's log
Shader_failed(g, id, len, log) ==
    LET g4    == glGetShaderiv(g, id, "INFO_LOG_LENGTH")
        error == InfoLogInto(create_whitespace_cstring_with_len(len), len, log)
        g5    == glGetShaderInfoLog(g4, id)
        g6    == glDeleteShader(g5, id)
    IN  [gl |-> g6, ok |-> FALSE, id |-> id, err |-> to_string_lossy(error)]

\* `if success == 0 { ... return Err } Ok(Shader { id })`: g is the context after
\* the status query; `success` and `len` keep their initial 1 and 0 when the
\* driver rejects the query
Shader_result(g, id, drv) ==
    IF GetShaderivValue(g, id, drv.status, 1) = 0
    THEN Shader_failed(g, id, GetShaderivValue(g, id, InfoLogLength(drv.log), 0), drv.log)
    ELSE [gl |-> g, ok |-> TRUE, id |-> id, err |-> <<>>]

\* gl::ShaderSource, gl::CompileShader, gl::GetShaderiv(COMPILE_STATUS)
Shader_compile(g, id) ==
    glGetShaderiv(glCompileShader(glShaderSource(g, id), id), id, "COMPILE_STATUS")

\* Shader::from_source(source, kind)
Shader_from_source(g, kind, drv) ==
    Shader_result(Shader_compile(glCreateShader(g, kind, drv.fresh), CreatedShader(kind, drv)),
                  CreatedShader(kind, drv), drv)

\* Drop for Shader
Shader_drop(g, id) == glDeleteShader(g, id)

\* `for shader in shaders { gl::AttachShader(id, shader.id()) }`
RECURSIVE AttachAll(_, _, _)
AttachAll(g, prog, shs) ==
    IF shs = <<>> THEN g
    ELSE AttachAll(glAttachShader(g, prog, Head(shs)), prog, Tail(shs))

\* the failure branch of Program::from_shaders: g is the context after the status
\* query, len what the length query leaves in `len`, log the driver's log
Program_failed(g, id, len, log) ==
    LET g5    == glGetProgramiv(g, id, "INFO_LOG_LENGTH")
        error == InfoLogInto(create_whitespace_cstring_with_len(len), len, log)
        g6    == glGetProgramInfoLog(g5, id)
        g7    == glDeleteProgram(g6, id)
    IN  [gl |-> g7, ok |-> FALSE, id |-> id, err |-> to_string_lossy(error)]

\* `if success == 0 { ... return Err } Ok(Program { id })`: g is the context
\* after the status query
Program_result(g, id, drv) ==
    IF GetProgramivValue(g, id, drv.status, 1) = 0
    THEN Program_failed(g, id, GetProgramivValue(g, id, InfoLogLength(drv.log), 0), drv.log)
    ELSE [gl |-> g, ok |-> TRUE, id |-> id, err |-> <<>>]

\* gl::LinkProgram, gl::GetProgramiv(LINK_STATUS)
Program_link(g, id, drv) ==
    glGetProgramiv(glLinkProgram(g, id, drv.status, drv.layout), id, "LINK_STATUS")

\* Program::from_shaders whose loop stops one shader short of the slice's end
Program_from_shaders_first(g, shs, drv) ==
    Program_result(Program_link(AttachAll(glCreateProgram(g, drv.fresh), drv.fresh,
                                          SubSeq(shs, 1, Len(shs) - 1)),
                                drv.fresh, drv),
                   drv.fresh, drv)

\* Program::from_shaders(shaders)
Program_from_shaders(g, shs, drv) ==
    Program_result(Program_link(AttachAll(glCreateProgram(g, drv.fresh), drv.fresh, shs),
                                drv.fresh, drv),
                   drv.fresh, drv)

\* Program::set that makes no program current
Program_set_none(g, id) == glUseProgram(g, 0)

\* Program::set
Program_set(g, id) == glUseProgram(g, id)

\* a Program without a Drop: its object is never deleted
Program_drop_forget(g, id) == g

\* Drop for Program
Program_drop(g, id) == glDeleteProgram(g, id)

\* create_program(): io is the outcome of reading the two files and of the two
\* CString::new conversions; vs, fs, pr are the driver's answers to the three builds.
\* A `?` that returns early drops the Shader values built so far; the array
\* [vert_shader, frag_shader] is dropped when the link statement ends.

\* line 134 onwards: p is what Program::from_shaders returned; the array's
\* elements are dropped in order
create_program_linked(v, f, p) ==
    [gl |-> Shader_drop(Shader_drop(p.gl, v.id), f.id), ok |-> p.ok,
     id |-> IF p.ok THEN p.id ELSE 0, err |-> p.err, made |-> {v.id, f.id, p.id}]

\* create_program whose failed fragment build leaves vert_shader undropped
create_program_frag_leak(v, f, pr) ==
    IF ~f.ok
    THEN [gl |-> f.gl, ok |-> FALSE, id |-> 0, err |-> f.err, made |-> {v.id, f.id}]
    ELSE create_program_linked(v, f, Program_from_shaders(f.gl, <<v.id, f.id>>, pr))

\* line 132 onwards: f is what the fragment build returned; its `?` drops vert_shader
create_program_frag(v, f, pr) ==
    IF ~f.ok
    THEN [gl |-> Shader_drop(f.gl, v.id), ok |-> FALSE, id |-> 0, err |-> f.err,
          made |-> {v.id, f.id}]
    ELSE create_program_linked(v, f, Program_from_shaders(f.gl, <<v.id, f.id>>, pr))

\* line 131 onwards: v is what the vertex build returned
create_program_vert(v, fs, pr) ==
    IF ~v.ok
    THEN [gl |-> v.gl, ok |-> FALSE, id |-> 0, err |-> v.err, made |-> {v.id}]
    ELSE create_program_frag(v, Shader_from_source(v.gl, "FRAGMENT_SHADER", fs), pr)

create_program(g, io, vs, fs, pr) ==
    IF ~io THEN [gl |-> g, ok |-> FALSE, id |-> 0, err |-> <<"io">>, made |-> {}]
    ELSE create_program_vert(Shader_from_source(g, "VERTEX_SHADER", vs), fs, pr)

----------------------------------------------------------------------------
(* A client of the shader and program API: any order of the public          *)
(* operations of Shader, Program and create_program.                        *)

\* an operation starts with an empty record of driver calls
Begin(g) == [g EXCEPT !.calls = <<>>]

Range(s) == {s[i] : i \in 1 .. Len(s)}

RemoveAt(s, i) == SubSeq(s, 1, i - 1) \o SubSeq(s, i + 1, Len(s))

\* what the driver may answer to one build: the name it hands out, the status, the
\* log.  The code reads the log only after a status of 0.
Answers(free) ==
    {a \in [fresh : free, status : {0, 1}, log : Logs, layout : {NoLayout}] :
        a.status = 1 => a.log = <<>>}
\* a link also answers with the locations of the program's uniforms
LinkAnswers(free) ==
    {a \in [fresh : free, status : {0, 1}, log : Logs, layout : Layouts \cup {NoLayout}] :
        /\ a.status = 1 => a.log = <<>>
        /\ a.status = 0 <=> a.layout = NoLayout}

NoMain == [none |-> TRUE]

InitClient ==
    /\ gl = GlInit
    /\ shaders = <<>> /\ programs = <<>> /\ uniforms = <<>> /\ resolved = <<>>
    /\ vbos = <<>> /\ ibos = <<>> /\ vaos = <<>>
    /\ ret = [op |-> "none"]
    /\ pc = "client"
    /\ mn = NoMain

FromSource ==
    \E kind \in Kinds, a \in Answers(FreshNames(gl)) :
        /\ Len(shaders) < MaxHeld
        /\ Cardinality(Names \ FreeNames(gl)) < MaxObjects
        /\ \E r \in {Shader_from_source(Begin(gl), kind, a)} :
               /\ gl' = r.gl
               /\ shaders' = IF r.ok THEN Append(shaders, r.id) ELSE shaders
               /\ ret' = [op |-> "Shader::from_source", ok |-> r.ok, id |-> r.id, err |-> r.err,
                          kind |-> kind, log |-> IF r.ok THEN <<>> ELSE a.log]
        /\ UNCHANGED <<programs, uniforms, resolved, vbos, ibos, vaos, pc, mn>>

DropShader ==
    \E i \in 1 .. Len(shaders) :
        /\ gl' = Shader_drop(Begin(gl), shaders[i])
        /\ shaders' = RemoveAt(shaders, i)
        /\ ret' = [op |-> "drop(Shader)", id |-> shaders[i]]
        /\ UNCHANGED <<programs, uniforms, resolved, vbos, ibos, vaos, pc, mn>>

FromShaders ==
    \E lo \in 1 .. Len(shaders) + 1, hi \in 0 .. Len(shaders), a \in LinkAnswers(FreshNames(gl)) :
        /\ Len(programs) < MaxHeld
        /\ Cardinality(Names \ FreeNames(gl)) < MaxObjects
        /\ lo <= hi + 1
        /\ \E r \in {Program_from_shaders(Begin(gl), SubSeq(shaders, lo, hi), a)} :
               /\ gl' = r.gl
               /\ programs' = IF r.ok THEN Append(programs, r.id) ELSE programs
               /\ ret' = [op |-> "Program::from_shaders", ok |-> r.ok, id |-> r.id, err |-> r.err,
                          shs |-> SubSeq(shaders, lo, hi), log |-> IF r.ok THEN <<>> ELSE a.log,
                          before |-> {n \in Names : IsProgram(gl, n)}]
        /\ UNCHANGED <<shaders, uniforms, resolved, vbos, ibos, vaos, pc, mn>>

ProgramSet ==
    \E i \in 1 .. Len(programs) :
        /\ pc = "client"
        /\ gl' = Program_set(Begin(gl), programs[i])
        /\ ret' = [op |-> "Program::set", id |-> programs[i], cur |-> gl.progCur]
        /\ UNCHANGED <<shaders, programs, uniforms, resolved, vbos, ibos, vaos, pc, mn>>

DropProgram ==
    \E i \in 1 .. Len(programs) :
        /\ gl' = Program_drop(Begin(gl), programs[i])
        /\ programs' = RemoveAt(programs, i)
        /\ ret' = [op |-> "drop(Program)", id |-> programs[i], cur |-> gl.progCur]
        /\ UNCHANGED <<shaders, uniforms, resolved, vbos, ibos, vaos, pc, mn>>

\* the driver is asked for the vertex build only after the files were read, for the
\* fragment build only after a vertex build that succeeded, for the link only after both
NotAsked == [fresh |-> 0, status |-> 1, log |-> <<>>, layout |-> NoLayout]

CreateProgram ==
    \E io \in BOOLEAN :
     \E vs \in IF io THEN Answers(FreshNames(gl)) ELSE {NotAsked} :
      \E fs \in IF vs # NotAsked /\ vs.status = 1 THEN Answers(Lowest(FreeNames(gl) \ {vs.fresh}, NameChoice)) ELSE {NotAsked} :
        \E pr \in IF fs # NotAsked /\ fs.status = 1
                  THEN LinkAnswers(Lowest(FreeNames(gl) \ {vs.fresh, fs.fresh}, NameChoice)) ELSE {NotAsked} :
          /\ pc = "client"
          /\ Len(programs) < MaxHeld
          /\ \E r \in {create_program(Begin(gl), io, vs, fs, pr)} :
                 /\ gl' = r.gl
                 /\ programs' = IF r.ok THEN Append(programs, r.id) ELSE programs
                 /\ ret' = [op |-> "create_program", ok |-> r.ok, id |-> r.id, err |-> r.err,
                            made |-> r.made]
          /\ UNCHANGED <<shaders, uniforms, resolved, vbos, ibos, vaos, pc, mn>>

NextShader ==
    \/ FromSource
    \/ DropShader
    \/ FromShaders
    \/ DropProgram

ShaderSpec == InitClient /\ [][NextShader]_vars

----------------------------------------------------------------------------
(* objects.rs: Uniform, and a client of create_program, Program and Uniform *)

\* glGetUniformLocation: -1 with a GL error for a name that is no linked program,
\* -1 for a name that is no active uniform of it
glGetUniformLocation(g, prog, name) ==
    Call(g, "GetUniformLocation", <<prog, name>>, IsProgram(g, prog) /\ g.linked[prog])
UniformLocation(g, prog, name) ==
    IF IsProgram(g, prog) /\ g.linked[prog] THEN g.layout[prog][name] ELSE -1

\* glUniform1f / glUniform2f (type "1f" / "2f"): acts on the current program.  The
\* value is stored when that program has a uniform of this type at the location;
\* location -1 is ignored; anything else is rejected with GL_INVALID_OPERATION.
UniformAccepted(g, type, loc) ==
    /\ g.progCur # 0
    /\ loc \in Locs
    /\ TypeAt(g.layout[g.progCur], loc) = type
glUniform(g, type, loc, value) ==
    IF UniformAccepted(g, type, loc)
    THEN Call([g EXCEPT !.uni[g.progCur][loc] = value], "Uniform" \o type, <<loc, value>>, TRUE)
    ELSE Call(g, "Uniform" \o type, <<loc, value>>, g.progCur # 0 /\ loc = -1)

\* a name with an interior NUL byte, which CString::new refuses
NulName == "u_ti\\0me"
HasNul(name) == name = NulName

\* Uniform::new that takes every answer of the driver for a location
Uniform_new_unchecked(g, program, name) ==
    IF HasNul(name)
    THEN [gl |-> g, panic |-> TRUE, ok |-> FALSE, err |-> "", val |-> [id |-> -1], location |-> -1]
    ELSE LET location == UniformLocation(g, program, name)
             g1       == glGetUniformLocation(g, program, name)
         IN  [gl |-> g1, panic |-> FALSE, ok |-> TRUE, err |-> "",
              val |-> [id |-> location], location |-> location]

\* Uniform::new(program, name); location is what the driver answered
Uniform_new(g, program, name) ==
    IF HasNul(name)
    THEN [gl |-> g, panic |-> TRUE, ok |-> FALSE, err |-> "", val |-> [id |-> -1], location |-> -1]
    ELSE LET location == UniformLocation(g, program, name)
             g1       == glGetUniformLocation(g, program, name)
         IN  IF location = -1
             THEN [gl |-> g1, panic |-> FALSE, ok |-> FALSE,
                   err |-> "Couldn't get Uniform location for " \o name,
                   val |-> [id |-> -1], location |-> location]
             ELSE [gl |-> g1, panic |-> FALSE, ok |-> TRUE, err |-> "",
                   val |-> [id |-> location], location |-> location]

\* Uniform::set_1f that writes one location further
Uniform_set_1f_off(g, u, value) == glUniform(g, "1f", u.id + 1, <<value>>)

\* Uniform::set_1f(value)
Uniform_set_1f(g, u, value) == glUniform(g, "1f", u.id, <<value>>)

\* Uniform::set_vec2f that passes the components in the wrong order
Uniform_set_vec2f_swapped(g, u, value) == glUniform(g, "2f", u.id, <<value[2], value[1]>>)

\* Uniform::set_vec2f(value)
Uniform_set_vec2f(g, u, value) == glUniform(g, "2f", u.id, <<value[1], value[2]>>)

\* the f32 values the client passes
Floats == {1, 2}

\* the current bindings: array buffer, element buffer, vertex array, program
Slots(g) == <<g.arrayBuf, g.vao[g.vaoCur].elem, g.vaoCur, g.progCur>>
\* the context without the record of calls
State(g) == [g EXCEPT !.calls = <<>>]

UniformNew ==
    \E program \in Range(programs) \cup {0}, name \in UniformNames \cup {NulName} :
        /\ pc = "client"
        /\ Len(uniforms) < MaxUniforms
        /\ \E r \in {Uniform_new(Begin(gl), program, name)} :
               /\ gl' = r.gl
               /\ uniforms' = IF r.ok THEN Append(uniforms, r.val) ELSE uniforms
               /\ resolved' = IF r.ok THEN Append(resolved, [prog |-> program, name |-> name])
                              ELSE resolved
               /\ pc' = IF r.panic THEN "panicked" ELSE pc
               /\ ret' = [op |-> "Uniform::new", ok |-> r.ok, panic |-> r.panic, err |-> r.err,
                          val |-> r.val, location |-> r.location, program |-> program,
                          name |-> name, before |-> State(gl)]
        /\ UNCHANGED <<shaders, programs, vbos, ibos, vaos, mn>>

UniformSet1f ==
    \E i \in 1 .. Len(uniforms), value \in Floats :
        /\ pc = "client"
        /\ gl' = Uniform_set_1f(Begin(gl), uniforms[i], value)
        /\ ret' = [op |-> "Uniform::set", type |-> "1f", u |-> uniforms[i], for |-> resolved[i].prog,
                   value |-> <<value>>, before |-> State(gl)]
        /\ UNCHANGED <<shaders, programs, uniforms, resolved, vbos, ibos, vaos, pc, mn>>

UniformSetVec2f ==
    \E i \in 1 .. Len(uniforms), value \in Floats \X Floats :
        /\ pc = "client"
        /\ value[1] # value[2]
        /\ gl' = Uniform_set_vec2f(Begin(gl), uniforms[i], value)
        /\ ret' = [op |-> "Uniform::set", type |-> "2f", u |-> uniforms[i], for |-> resolved[i].prog,
                   value |-> value, before |-> State(gl)]
        /\ UNCHANGED <<shaders, programs, uniforms, resolved, vbos, ibos, vaos, pc, mn>>

\* a Uniform value goes out of scope; Uniform has no Drop
UniformForget ==
    \E i \in 1 .. Len(uniforms) :
        /\ uniforms' = RemoveAt(uniforms, i)
        /\ resolved' = RemoveAt(resolved, i)
        /\ gl' = Begin(gl)
        /\ ret' = [op |-> "drop(Uniform)"]
        /\ UNCHANGED <<shaders, programs, vbos, ibos, vaos, pc, mn>>

NextProgram ==
    \/ CreateProgram
    \/ ProgramSet
    \/ DropProgram
    \/ UniformNew
    \/ UniformSet1f
    \/ UniformSetVec2f
    \/ UniformForget

ProgramSpec == InitClient /\ [][NextProgram]_vars

----------------------------------------------------------------------------
(* The driver's buffer and vertex array calls *)

FreeBufs(g) == {b \in BufNames : g.buf[b].st = "free"}
FreshBufs(g) == Lowest(FreeBufs(g), NameChoice)
FreeVaos(g) == {v \in VaoNames : g.vao[v].st = "free"}
FreshVaos(g) == Lowest(FreeVaos(g), NameChoice)

\* glGenBuffers(1, &id): reserves an unused name; the object comes with the first bind
glGenBuffers(g, id) == Call([g EXCEPT !.buf[id].st = "named"], "GenBuffers", id, TRUE)

\* the buffer bound to a target; the element buffer binding belongs to the current
\* vertex array
Bound(g, target) == IF target = "ARRAY_BUFFER" THEN g.arrayBuf ELSE g.vao[g.vaoCur].elem

\* glBindBuffer: 0 unbinds; a name that was never generated is rejected
glBindBuffer(g, target, id) ==
    IF id # 0 /\ ~(id \in BufNames /\ g.buf[id].st # "free")
    THEN Call(g, "BindBuffer", <<target, id>>, FALSE)
    ELSE LET g1 == IF id = 0 THEN g ELSE [g EXCEPT !.buf[id].st = "object"]
             g2 == IF target = "ARRAY_BUFFER"
                   THEN [g1 EXCEPT !.arrayBuf = id]
                   ELSE [g1 EXCEPT !.vao[g.vaoCur].elem = id]
         IN  Call(g2, "BindBuffer", <<target, id>>, TRUE)

\* glBufferData(target, size, data, DYNAMIC_DRAW): a new data store of size bytes for
\* the buffer bound to target, filled from data; rejected when nothing is bound
glBufferData(g, target, size, data) ==
    IF Bound(g, target) = 0
    THEN Call(g, "BufferData", <<target, size>>, FALSE)
    ELSE Call([g EXCEPT !.buf[Bound(g, target)] = [st |-> "object", data |-> data, size |-> size]],
              "BufferData", <<target, size>>, TRUE)

\* glDeleteBuffers(1, &id): 0 and unused names are ignored; the bindings of the
\* buffer in the current context and the current vertex array revert to 0
glDeleteBuffers(g, id) ==
    IF ~(id \in BufNames /\ g.buf[id].st # "free")
    THEN Call(g, "DeleteBuffers", id, TRUE)
    ELSE LET cur == g.vao[g.vaoCur]
             va  == [cur EXCEPT !.elem = IF @ = id THEN 0 ELSE @,
                                !.attr = [a \in Attribs |->
                                            IF @[a].buf = id THEN [@[a] EXCEPT !.buf = 0] ELSE @[a]]]
         IN  Call([g EXCEPT !.buf[id] = NoBuffer,
                            !.arrayBuf = IF @ = id THEN 0 ELSE @,
                            !.vao[g.vaoCur] = va],
                  "DeleteBuffers", id, TRUE)

\* glGenVertexArrays(1, &id)
glGenVertexArrays(g, id) ==
    Call([g EXCEPT !.vao[id] = [NoVao EXCEPT !.st = "named"]], "GenVertexArrays", id, TRUE)

\* glBindVertexArray: 0 is the default vertex array; a name never generated is rejected
glBindVertexArray(g, id) ==
    IF id # 0 /\ ~(id \in VaoNames /\ g.vao[id].st # "free")
    THEN Call(g, "BindVertexArray", id, FALSE)
    ELSE LET g1 == IF id = 0 THEN g ELSE [g EXCEPT !.vao[id].st = "object"]
         IN  Call([g1 EXCEPT !.vaoCur = id], "BindVertexArray", id, TRUE)

\* glDeleteVertexArrays(1, &id): unused names are ignored; a current one is unbound
glDeleteVertexArrays(g, id) ==
    IF ~(id \in VaoNames /\ g.vao[id].st # "free")
    THEN Call(g, "DeleteVertexArrays", id, TRUE)
    ELSE Call([g EXCEPT !.vao[id] = NoVao, !.vaoCur = IF @ = id THEN 0 ELSE @],
              "DeleteVertexArrays", id, TRUE)

\* glEnableVertexAttribArray(index), on the current vertex array
glEnableVertexAttribArray(g, index) ==
    Call([g EXCEPT !.vao[g.vaoCur].attr[index].enabled = TRUE], "EnableVertexAttribArray", index, TRUE)

\* glVertexAttribPointer(index, size, FLOAT, FALSE, stride, offset): the slot of the
\* current vertex array takes the layout and the buffer bound to ARRAY_BUFFER now;
\* rejected for a generated vertex array with no buffer bound and an offset other than 0
glVertexAttribPointer(g, index, size, stride, offset) ==
    IF g.vaoCur # 0 /\ g.arrayBuf = 0 /\ offset # 0
    THEN Call(g, "VertexAttribPointer", <<index, size, stride, offset>>, FALSE)
    ELSE Call([g EXCEPT !.vao[g.vaoCur].attr[index] =
                   [enabled |-> @.enabled, buf |-> g.arrayBuf, size |-> size,
                    stride |-> stride, offset |-> offset]],
              "VertexAttribPointer", <<index, size, stride, offset>>, TRUE)

----------------------------------------------------------------------------
(* objects.rs: Vertex, Vbo, Ibo, Vao *)

\* size_of::<f32>() and size_of::<u32>()
F32Size == 4
U32Size == 4
\* struct Vertex, repr(C): position (f32, f32), color (f32, f32, f32), tex_coord (f32, f32)
VertexFields == <<2, 3, 2>>
RECURSIVE FloatsBefore(_)
FloatsBefore(field) == IF field = 1 THEN 0 ELSE FloatsBefore(field - 1) + VertexFields[field - 1]
\* an offset counted in floats instead of bytes
OffsetOf_floats(field) == FloatsBefore(field)
\* offset_of!(Vertex, field) and size_of::<Vertex>(): the fields follow each other unpadded
OffsetOf(field) == FloatsBefore(field) * F32Size
SizeOfVertex == FloatsBefore(Len(VertexFields) + 1) * F32Size

\* Vertex::desc(): slots 0, 1, 2 with 2, 3, 2 components
Vertex_desc(g) ==
    LET stride == SizeOfVertex
        g0 == glVertexAttribPointer(glEnableVertexAttribArray(g, 0), 0, 2, stride, OffsetOf(1))
        g1 == glVertexAttribPointer(glEnableVertexAttribArray(g0, 1), 1, 3, stride, OffsetOf(2))
        g2 == glVertexAttribPointer(glEnableVertexAttribArray(g1, 2), 2, 2, stride, OffsetOf(3))
    IN  g2

Vbo_generate(g, id) == glGenBuffers(g, id)
Vbo_bind(g, id) == glBindBuffer(g, "ARRAY_BUFFER", id)
Vbo_unbind(g) == glBindBuffer(g, "ARRAY_BUFFER", 0)
Vbo_delete(g, id) == glDeleteBuffers(g, id)
\* Vbo::data: size_of_val(vertices) bytes
Vbo_data(g, vertices) == glBufferData(g, "ARRAY_BUFFER", Len(vertices) * SizeOfVertex, vertices)
\* Vbo::set that uploads without binding the buffer first
Vbo_set_nobind(g, id, data) == Vbo_data(g, data)
\* Vbo::set(data)
Vbo_set(g, id, data) == Vbo_data(Vbo_bind(g, id), data)
\* Drop for Vbo that deletes without unbinding
Vbo_drop_nounbind(g, id) == Vbo_delete(g, id)
\* Drop for Vbo
Vbo_drop(g, id) == Vbo_delete(Vbo_unbind(g), id)

Ibo_generate(g, id) == glGenBuffers(g, id)
Ibo_bind(g, id) == glBindBuffer(g, "ELEMENT_ARRAY_BUFFER", id)
Ibo_unbind(g) == glBindBuffer(g, "ELEMENT_ARRAY_BUFFER", 0)
Ibo_delete(g, id) == glDeleteBuffers(g, id)
\* Ibo::data: size_of_val(indices) bytes
Ibo_data(g, indices) == glBufferData(g, "ELEMENT_ARRAY_BUFFER", Len(indices) * U32Size, indices)
\* Ibo::set that binds and uploads through the ARRAY_BUFFER target
Ibo_set_array(g, id, data) ==
    glBufferData(glBindBuffer(g, "ARRAY_BUFFER", id), "ARRAY_BUFFER", Len(data) * U32Size, data)
\* Ibo::set that uploads without binding the buffer first
Ibo_set_nobind(g, id, data) == Ibo_data(g, data)
\* Ibo::set(data)
Ibo_set(g, id, data) == Ibo_data(Ibo_bind(g, id), data)
\* Drop for Ibo
Ibo_drop(g, id) == Ibo_delete(Ibo_unbind(g), id)

Vao_generate(g, id) == glGenVertexArrays(g, id)
Vao_bind(g, id) == glBindVertexArray(g, id)
Vao_unbind(g) == glBindVertexArray(g, 0)
Vao_delete(g, id) == glDeleteVertexArrays(g, id)
\* Vao::set that configures without making the vertex array current
Vao_set_nobind(g, id) == Vertex_desc(g)
\* Vao::set()
Vao_set(g, id) == Vertex_desc(Vao_bind(g, id))
\* Drop for Vao
Vao_drop(g, id) == Vao_delete(Vao_unbind(g), id)

----------------------------------------------------------------------------
(* A client of Vbo, Ibo and Vao: any order of their public operations *)

\* the Vertex values and the indices the client uploads
VertexVals == {101, 102}
IndexVals == {0, 1}

VboGenerate ==
    \E id \in FreshBufs(gl) :
        /\ Len(vbos) < MaxHeld
        /\ gl' = Vbo_generate(Begin(gl), id)
        /\ vbos' = Append(vbos, id)
        /\ ret' = [op |-> "Vbo::generate", id |-> id, before |-> State(gl)]
        /\ UNCHANGED <<shaders, programs, uniforms, resolved, ibos, vaos, pc, mn>>

VboSet ==
    \E i \in 1 .. Len(vbos), data \in SeqsUpTo(VertexVals, MaxLen) :
        /\ gl' = Vbo_set(Begin(gl), vbos[i], data)
        /\ ret' = [op |-> "Vbo::set", id |-> vbos[i], data |-> data, before |-> State(gl)]
        /\ UNCHANGED <<shaders, programs, uniforms, resolved, vbos, ibos, vaos, pc, mn>>

DropVbo ==
    \E i \in 1 .. Len(vbos) :
        /\ gl' = Vbo_drop(Begin(gl), vbos[i])
        /\ vbos' = RemoveAt(vbos, i)
        /\ ret' = [op |-> "drop(Vbo)", id |-> vbos[i], before |-> State(gl)]
        /\ UNCHANGED <<shaders, programs, uniforms, resolved, ibos, vaos, pc, mn>>

IboGenerate ==
    \E id \in FreshBufs(gl) :
        /\ Len(ibos) < MaxHeld
        /\ gl' = Ibo_generate(Begin(gl), id)
        /\ ibos' = Append(ibos, id)
        /\ ret' = [op |-> "Ibo::generate", id |-> id, before |-> State(gl)]
        /\ UNCHANGED <<shaders, programs, uniforms, resolved, vbos, vaos, pc, mn>>

IboSet ==
    \E i \in 1 .. Len(ibos), data \in SeqsUpTo(IndexVals, MaxLen) :
        /\ gl' = Ibo_set(Begin(gl), ibos[i], data)
        /\ ret' = [op |-> "Ibo::set", id |-> ibos[i], data |-> data, before |-> State(gl)]
        /\ UNCHANGED <<shaders, programs, uniforms, resolved, vbos, ibos, vaos, pc, mn>>

DropIbo ==
    \E i \in 1 .. Len(ibos) :
        /\ gl' = Ibo_drop(Begin(gl), ibos[i])
        /\ ibos' = RemoveAt(ibos, i)
        /\ ret' = [op |-> "drop(Ibo)", id |-> ibos[i], before |-> State(gl)]
        /\ UNCHANGED <<shaders, programs, uniforms, resolved, vbos, vaos, pc, mn>>

VaoGenerate ==
    \E id \in FreshVaos(gl) :
        /\ Len(vaos) < MaxHeld
        /\ gl' = Vao_generate(Begin(gl), id)
        /\ vaos' = Append(vaos, id)
        /\ ret' = [op |-> "Vao::generate", id |-> id, before |-> State(gl)]
        /\ UNCHANGED <<shaders, programs, uniforms, resolved, vbos, ibos, pc, mn>>

VaoSet ==
    \E i \in 1 .. Len(vaos) :
        /\ gl' = Vao_set(Begin(gl), vaos[i])
        /\ ret' = [op |-> "Vao::set", id |-> vaos[i], before |-> State(gl)]
        /\ UNCHANGED <<shaders, programs, uniforms, resolved, vbos, ibos, vaos, pc, mn>>

DropVao ==
    \E i \in 1 .. Len(vaos) :
        /\ gl' = Vao_drop(Begin(gl), vaos[i])
        /\ vaos' = RemoveAt(vaos, i)
        /\ ret' = [op |-> "drop(Vao)", id |-> vaos[i], before |-> State(gl)]
        /\ UNCHANGED <<shaders, programs, uniforms, resolved, vbos, ibos, pc, mn>>

NextBuffer ==
    \/ VboGenerate
    \/ VboSet
    \/ DropVbo
    \/ IboGenerate
    \/ IboSet
    \/ DropIbo
    \/ VaoGenerate
    \/ VaoSet
    \/ DropVao

BufferSpec == InitClient /\ [][NextBuffer]_vars

----------------------------------------------------------------------------
(* main.rs.  The values main() owns are kept in programs, uniforms         *)
(* (u_resolution, then u_time), vbos, vaos and ibos; mn holds `time`, in    *)
(* steps of 0.01.  pc: "start", "program", "current", "resolution", "time", *)
(* "vbo", "vao" (setup, by the local declared last), "loop", "exit" (after  *)
(* break 'running), "panic" (an unwrap failed), "done".                     *)

\* the three vertices and the indices of lines 30-36
MainVertices == <<201, 202, 203>>
MainIndices == <<0, 1, 2>>
\* the window sizes a Resized event may carry
Sizes == {<<640, 480>>}

InitMain ==
    /\ gl = GlInit
    /\ shaders = <<>> /\ programs = <<>> /\ uniforms = <<>> /\ resolved = <<>>
    /\ vbos = <<>> /\ ibos = <<>> /\ vaos = <<>>
    /\ ret = [op |-> "none"]
    /\ pc = "start"
    /\ mn = [time |-> 0]

\* gl::Viewport, gl::ClearColor, gl::Clear: state the program never reads back
glViewport(g, w, h) == Call(g, "Viewport", <<0, 0, w, h>>, TRUE)
glClear(g) == Call(Call(g, "ClearColor", 0, TRUE), "Clear", 0, TRUE)

\* glDrawElements(TRIANGLES, count, UNSIGNED_INT, NULL): draws with the current
\* program, vertex array and element buffer; rejected without an element buffer
glDrawElements(g, count) ==
    Call(g, "DrawElements",
         [mode |-> "TRIANGLES", count |-> count, type |-> "UNSIGNED_INT",
          program |-> g.progCur, vao |-> g.vaoCur, elem |-> g.vao[g.vaoCur].elem],
         g.vao[g.vaoCur].elem # 0)

\* lines 16-21: gl::Viewport(0, 0, 800, 800), then create_program().unwrap()
MainCreateProgram ==
    \E io \in BOOLEAN :
     \E vs \in IF io THEN Answers(FreshNames(gl)) ELSE {NotAsked} :
      \E fs \in IF vs # NotAsked /\ vs.status = 1
                THEN Answers(Lowest(FreeNames(gl) \ {vs.fresh}, NameChoice)) ELSE {NotAsked} :
        \E pr \in IF fs # NotAsked /\ fs.status = 1
                  THEN LinkAnswers(Lowest(FreeNames(gl) \ {vs.fresh, fs.fresh}, NameChoice))
                  ELSE {NotAsked} :
          /\ pc = "start"
          /\ \E r \in {create_program(glViewport(Begin(gl), 800, 800), io, vs, fs, pr)} :
                 /\ gl' = r.gl
                 /\ programs' = IF r.ok THEN <<r.id>> ELSE programs
                 /\ pc' = IF r.ok THEN "program" ELSE "panic"
                 /\ ret' = [op |-> "create_program", ok |-> r.ok, id |-> r.id, err |-> r.err,
                            made |-> r.made]
          /\ UNCHANGED <<shaders, uniforms, resolved, vbos, ibos, vaos, mn>>

\* line 22: program.set()
MainProgramSet ==
    /\ pc = "program"
    /\ gl' = Program_set(Begin(gl), programs[1])
    /\ pc' = "current"
    /\ ret' = [op |-> "Program::set", id |-> programs[1], cur |-> gl.progCur]
    /\ UNCHANGED <<shaders, programs, uniforms, resolved, vbos, ibos, vaos, mn>>

\* lines 24-25 and 26-27: Uniform::new(program.id(), name).unwrap(), then the first set
MainUniform(at, name, next) ==
    /\ pc = at
    /\ \E r \in {Uniform_new(Begin(gl), programs[1], name)} :
           /\ uniforms' = IF r.ok THEN Append(uniforms, r.val) ELSE uniforms
           /\ resolved' = IF r.ok THEN Append(resolved, [prog |-> programs[1], name |-> name])
                          ELSE resolved
           /\ gl' = IF ~r.ok THEN r.gl
                    ELSE IF name = "u_resolution" THEN Uniform_set_vec2f(r.gl, r.val, <<800, 800>>)
                    ELSE Uniform_set_1f(r.gl, r.val, 0)
           /\ pc' = IF r.ok THEN next ELSE "panic"
           /\ ret' = [op |-> "main:uniform", ok |-> r.ok, name |-> name, val |-> r.val]
    /\ UNCHANGED <<shaders, programs, vbos, ibos, vaos, mn>>

MainUniformResolution == MainUniform("current", "u_resolution", "resolution")
MainUniformTime == MainUniform("resolution", "u_time", "time")

\* lines 38-39
MainVbo ==
    \E id \in FreshBufs(gl) :
        /\ pc = "time"
        /\ gl' = Vbo_set(Vbo_generate(Begin(gl), id), id, MainVertices)
        /\ vbos' = <<id>>
        /\ pc' = "vbo"
        /\ ret' = [op |-> "main:vbo", id |-> id]
        /\ UNCHANGED <<shaders, programs, uniforms, resolved, ibos, vaos, mn>>

\* lines 41-42
MainVao ==
    \E id \in FreshVaos(gl) :
        /\ pc = "vbo"
        /\ gl' = Vao_set(Vao_generate(Begin(gl), id), id)
        /\ vaos' = <<id>>
        /\ pc' = "vao"
        /\ ret' = [op |-> "main:vao", id |-> id]
        /\ UNCHANGED <<shaders, programs, uniforms, resolved, vbos, ibos, mn>>

\* lines 44-45
MainIbo ==
    \E id \in FreshBufs(gl) :
        /\ pc = "vao"
        /\ gl' = Ibo_set(Ibo_generate(Begin(gl), id), id, MainIndices)
        /\ ibos' = <<id>>
        /\ pc' = "loop"
        /\ ret' = [op |-> "main:ibo", id |-> id]
        /\ UNCHANGED <<shaders, programs, uniforms, resolved, vbos, vaos, mn>>

\* lines 52-55: WindowEvent::Resized(width, height)
EventResized ==
    \E size \in Sizes :
        /\ pc = "loop"
        /\ gl' = Uniform_set_vec2f(glViewport(Begin(gl), size[1], size[2]), uniforms[1], size)
        /\ ret' = [op |-> "main:resized", size |-> size, cur |-> gl.progCur]
        /\ UNCHANGED <<shaders, programs, uniforms, resolved, vbos, ibos, vaos, pc, mn>>

\* lines 61-65: Scancode::R.  drop(program) comes first; a create_program that fails
\* panics in unwrap with `program` moved out
EventKeyR ==
    \E io \in BOOLEAN :
     \E vs \in IF io THEN Answers(FreshNames(gl)) ELSE {NotAsked} :
      \E fs \in IF vs # NotAsked /\ vs.status = 1
                THEN Answers(Lowest(FreeNames(gl) \ {vs.fresh}, NameChoice)) ELSE {NotAsked} :
        \E pr \in IF fs # NotAsked /\ fs.status = 1
                  THEN LinkAnswers(Lowest(FreeNames(gl) \ {vs.fresh, fs.fresh}, NameChoice))
                  ELSE {NotAsked} :
          /\ pc = "loop"
          /\ \E r \in {create_program(Program_drop(Begin(gl), programs[1]), io, vs, fs, pr)} :
                 /\ gl' = IF r.ok THEN Program_set(r.gl, r.id) ELSE r.gl
                 /\ programs' = IF r.ok THEN <<r.id>> ELSE <<>>
                 /\ pc' = IF r.ok THEN "loop" ELSE "panic"
                 /\ ret' = [op |-> "main:reload", ok |-> r.ok, old |-> programs[1], id |-> r.id]
          /\ UNCHANGED <<shaders, uniforms, resolved, vbos, ibos, vaos, mn>>

\* lines 66 and 71: Scancode::Escape and Event::Quit
EventBreak ==
    /\ pc = "loop"
    /\ pc' = "exit"
    /\ gl' = Begin(gl)
    /\ ret' = [op |-> "main:break"]
    /\ UNCHANGED <<shaders, programs, uniforms, resolved, vbos, ibos, vaos, mn>>

\* lines 76-93: the update and the render of one frame, once the events are handled
Frame ==
    /\ pc = "loop"
    /\ mn.time < MaxFrames
    /\ \E time \in {mn.time + 1} :
           /\ gl' = glDrawElements(glClear(Uniform_set_1f(Begin(gl), uniforms[2], time)),
                                   Len(MainIndices))
           /\ mn' = [mn EXCEPT !.time = time]
           /\ ret' = [op |-> "main:frame", time |-> time]
    /\ UNCHANGED <<shaders, programs, uniforms, resolved, vbos, ibos, vaos, pc>>

\* the end of main(), or the unwinding of a panic: the locals still owned are
\* dropped in reverse order of declaration: ibo, vao, vbo, program
ScopeEnd ==
    /\ pc \in {"exit", "panic"}
    /\ \E g1 \in {IF ibos = <<>> THEN Begin(gl) ELSE Ibo_drop(Begin(gl), ibos[1])} :
        \E g2 \in {IF vaos = <<>> THEN g1 ELSE Vao_drop(g1, vaos[1])} :
         \E g3 \in {IF vbos = <<>> THEN g2 ELSE Vbo_drop(g2, vbos[1])} :
            gl' = IF programs = <<>> THEN g3 ELSE Program_drop(g3, programs[1])
    /\ ibos' = <<>> /\ vaos' = <<>> /\ vbos' = <<>> /\ programs' = <<>>
    /\ uniforms' = <<>> /\ resolved' = <<>>
    /\ pc' = "done"
    /\ ret' = [op |-> "main:end", after |-> pc, program |-> programs]
    /\ UNCHANGED <<shaders, mn>>

NextMain ==
    \/ MainCreateProgram
    \/ MainProgramSet
    \/ MainUniformResolution
    \/ MainUniformTime
    \/ MainVbo
    \/ MainVao
    \/ MainIbo
    \/ EventResized
    \/ EventKeyR
    \/ EventBreak
    \/ Frame
    \/ ScopeEnd

MainSpec == InitMain /\ [][NextMain]_vars

----------------------------------------------------------------------------
(* Properties of Shader and Program, under ShaderSpec *)

Fs(calls) == [i \in 1 .. Len(calls) |-> calls[i].f]
NoNul(text) == SelectSeq(text, LAMBDA c : c # NUL)
\* the text starts with the log and holds nothing else but terminators
Carries(text, log) ==
    /\ Len(text) >= Len(log)
    /\ SubSeq(text, 1, Len(log)) = log
    /\ NoNul(text) = log

\* C2: a Shader::from_source that the driver fails asks for the log length, fetches
\* the log, deletes the shader it created and returns Err with the log; the shader
\* object is gone, no Shader value holds its name, and no Drop deletes a name that
\* is no shader object any more.
C2_FailedCompileRollsBack ==
    /\ (ret.op = "Shader::from_source" /\ ~ret.ok) =>
         /\ ret.id # 0
         /\ Fs(gl.calls) = <<"CreateShader", "ShaderSource", "CompileShader", "GetShaderiv",
                             "GetShaderiv", "GetShaderInfoLog", "DeleteShader">>
         /\ gl.calls[4].a = <<ret.id, "COMPILE_STATUS">>
         /\ gl.calls[5].a = <<ret.id, "INFO_LOG_LENGTH">>
         /\ gl.calls[6].a = ret.id
         /\ gl.calls[7].a = ret.id
         /\ Carries(ret.err, ret.log)
         /\ ~IsShader(gl, ret.id)
         /\ ret.id \notin Range(shaders)
    /\ \A i \in 1 .. Len(gl.calls) : gl.calls[i].f = "DeleteShader" => gl.calls[i].ok
    /\ \A i, j \in 1 .. Len(shaders) : (i # j /\ shaders[i] # 0) => shaders[i] # shaders[j]

C2_Witness ==
    /\ ret.op = "Shader::from_source" /\ ~ret.ok /\ ret.log # <<>>
    /\ shaders # <<>>

AttachCalls(id, shs) == [i \in 1 .. Len(shs) |-> <<id, shs[i]>>]

\* C3: Program::from_shaders creates a program, attaches every shader of the slice
\* in order, links, and on a link failure fetches the log, deletes the program and
\* returns Err with the log, leaving no program object of its own; on success the
\* one new program object is live and linked and the returned Program alone holds it.
C3_LinkCreatesOneOrNone ==
    ret.op = "Program::from_shaders" =>
        LET n   == Len(ret.shs)
            now == {m \in Names : IsProgram(gl, m)}
        IN  /\ ret.id \notin ret.before
            /\ Len(gl.calls) = IF ret.ok THEN n + 3 ELSE n + 6
            /\ Fs(SubSeq(gl.calls, 1, n + 3)) =
                  <<"CreateProgram">> \o [i \in 1 .. n |-> "AttachShader"]
                     \o <<"LinkProgram", "GetProgramiv">>
            /\ [i \in 1 .. n |-> gl.calls[i + 1].a] = AttachCalls(ret.id, ret.shs)
            /\ gl.calls[n + 2].a = ret.id
            /\ gl.calls[n + 3].a = <<ret.id, "LINK_STATUS">>
            /\ ret.ok =>
                 /\ Len(gl.calls) = n + 3
                 /\ now = ret.before \cup {ret.id}
                 /\ LiveProgram(gl, ret.id) /\ gl.linked[ret.id]
                 /\ gl.attached[ret.id] = Range(ret.shs) \ {0}
                 /\ Cardinality({i \in 1 .. Len(programs) : programs[i] = ret.id}) = 1
            /\ ~ret.ok =>
                 /\ Fs(SubSeq(gl.calls, n + 4, Len(gl.calls))) =
                       <<"GetProgramiv", "GetProgramInfoLog", "DeleteProgram">>
                 /\ gl.calls[n + 4].a = <<ret.id, "INFO_LOG_LENGTH">>
                 /\ gl.calls[n + 6].a = ret.id
                 /\ Carries(ret.err, ret.log)
                 /\ now = ret.before
                 /\ ret.id \notin Range(programs)

C3_Witness ==
    /\ ret.op = "Program::from_shaders" /\ ret.ok /\ Len(ret.shs) = 2
    /\ ret.before # {}

\* C8: a Shader::from_source that returns Ok returns a shader whose id is not 0.
C8_OkShaderIdNonZero ==
    (ret.op = "Shader::from_source" /\ ret.ok) => ret.id # 0

----------------------------------------------------------------------------
(* Properties of Uniform, under ProgramSpec *)

\* C7: Uniform::new returns Err with the text naming the parameter exactly when the
\* driver answers -1 to the location lookup, and otherwise Ok with a Uniform that
\* holds the answered location; it leaves the objects and bindings of the context
\* as they were.  (A name with an interior NUL panics before any driver call.)
C7_ResolveErrIffNotFound ==
    ret.op = "Uniform::new" =>
        LET answer == UniformLocation(ret.before, ret.program, ret.name)
        IN  /\ State(gl) = ret.before
            /\ ret.panic <=> HasNul(ret.name)
            /\ ret.panic => gl.calls = <<>> /\ pc = "panicked"
            /\ ~ret.panic =>
                 /\ Fs(gl.calls) = <<"GetUniformLocation">>
                 /\ gl.calls[1].a = <<ret.program, ret.name>>
                 /\ ~ret.ok <=> answer = -1
                 /\ ~ret.ok => ret.err = "Couldn't get Uniform location for " \o ret.name
                 /\ ret.ok => /\ ret.val.id = answer
                              /\ uniforms[Len(uniforms)] = ret.val

C7_Witness ==
    /\ ret.op = "Uniform::new" /\ ~ret.ok /\ ~ret.panic
    /\ LiveProgram(gl, ret.program) /\ gl.progCur = ret.program

\* C9 as claimed: a setter updates the program its Uniform was resolved against:
\* whenever a set call changes a uniform value, it is one of that program.
C9_SetUpdatesResolvedProgram ==
    (ret.op = "Uniform::set" /\ gl.uni # ret.before.uni) =>
        \A n \in Names : n # ret.for => gl.uni[n] = ret.before.uni[n]

\* C9, amended: a Uniform holds the location the driver answered for the program
\* and name it was resolved with, and nothing else; a setter issues one update call
\* with the stored location and the value, which names no program, and only the
\* uniforms of the program current at that moment can change.
C9_HandleHoldsLocationOnly ==
    /\ \A i \in 1 .. Len(uniforms) : DOMAIN uniforms[i] = {"id"} /\ uniforms[i].id \in Locs
    /\ (ret.op = "Uniform::new" /\ ret.ok) =>
          uniforms[Len(uniforms)].id = UniformLocation(ret.before, ret.program, ret.name)
    /\ ret.op = "Uniform::set" =>
          /\ Len(gl.calls) = 1
          /\ gl.calls[1].f = "Uniform" \o ret.type
          /\ gl.calls[1].a = <<ret.u.id, ret.value>>
          /\ \A n \in Names : n # ret.before.progCur => gl.uni[n] = ret.before.uni[n]

C9_Witness ==
    /\ ret.op = "Uniform::set" /\ gl.calls[1].ok
    /\ ret.for = gl.progCur /\ ret.u.id = 1

\* C10 as claimed: a set call writes the value at the handle's location into
\* whatever program is current.
C10_SetWritesIntoCurrent ==
    (ret.op = "Uniform::set" /\ ret.before.progCur # 0) =>
        gl.uni[ret.before.progCur][ret.u.id] = ret.value

\* C10, amended: a setter raises no error and checks no program: its one call acts
\* on whatever program is current, also one the Uniform was not resolved against.
\* The value is written at the handle's location when the current program has a
\* uniform of the call's type there; otherwise (no current program, no such
\* uniform, another type) the driver rejects the call and nothing changes.  No
\* current binding changes either way.
C10_SetIsUnchecked ==
    ret.op = "Uniform::set" =>
        LET b   == ret.before
            cur == b.progCur
        IN  /\ pc = "client"
            /\ Slots(gl) = Slots(b)
            /\ State(gl) = [b EXCEPT !.uni = gl.uni]
            /\ IF cur # 0 /\ TypeAt(b.layout[cur], ret.u.id) = ret.type
               THEN /\ gl.uni = [b.uni EXCEPT ![cur][ret.u.id] = ret.value]
                    /\ gl.calls[1].ok
               ELSE /\ gl.uni = b.uni
                    /\ ~gl.calls[1].ok

C10_Witness ==
    /\ ret.op = "Uniform::set" /\ ret.type = "2f"
    /\ ret.before.progCur \notin {0, ret.for}
    /\ LiveProgram(gl, ret.for)
    /\ gl.uni # ret.before.uni

----------------------------------------------------------------------------
(* Properties of Vbo, Ibo and Vao, under BufferSpec *)

RecordSize(op) == IF op = "Vbo::set" THEN SizeOfVertex ELSE U32Size

\* C5: after Vbo::set / Ibo::set the buffer holds exactly the sequence uploaded, in
\* Len(data) * size-of-record bytes, whatever it held before and however long that
\* was; so after any number of uploads it holds the last one.
C5_UploadReplacesAll ==
    ret.op \in {"Vbo::set", "Ibo::set"} =>
        /\ gl.buf[ret.id].st = "object"
        /\ gl.buf[ret.id].data = ret.data
        /\ gl.buf[ret.id].size = Len(ret.data) * RecordSize(ret.op)

C5_Witness ==
    /\ ret.op \in {"Vbo::set", "Ibo::set"}
    /\ ret.before.buf[ret.id].st = "object"
    /\ Len(ret.before.buf[ret.id].data) > Len(ret.data)
    /\ Bound(ret.before, IF ret.op = "Vbo::set" THEN "ARRAY_BUFFER" ELSE "ELEMENT_ARRAY_BUFFER")
          \notin {0, ret.id}

DropTarget(op) ==
    CASE op = "drop(Vbo)" -> "ARRAY_BUFFER"
      [] op = "drop(Ibo)" -> "ELEMENT_ARRAY_BUFFER"
      [] OTHER -> "VERTEX_ARRAY"

\* C6: dropping a Vbo, Ibo or Vao first binds 0 to its own target and then deletes
\* its name; right after, that target's binding is 0 and the object is gone.
C6_DropUnbindsThenDeletes ==
    ret.op \in {"drop(Vbo)", "drop(Ibo)", "drop(Vao)"} =>
        /\ Len(gl.calls) = 2
        /\ gl.calls[2].a = ret.id
        /\ IF ret.op = "drop(Vao)"
           THEN /\ Fs(gl.calls) = <<"BindVertexArray", "DeleteVertexArrays">>
                /\ gl.calls[1].a = 0
                /\ gl.vaoCur = 0
                /\ gl.vao[ret.id].st = "free"
           ELSE /\ Fs(gl.calls) = <<"BindBuffer", "DeleteBuffers">>
                /\ gl.calls[1].a = <<DropTarget(ret.op), 0>>
                /\ Bound(gl, DropTarget(ret.op)) = 0
                /\ gl.buf[ret.id].st = "free"

C6_Witness ==
    /\ ret.op = "drop(Vbo)"
    /\ ret.before.arrayBuf \notin {0, ret.id}
    /\ ret.before.buf[ret.id].st = "object"

----------------------------------------------------------------------------
(* Properties of main(), under MainSpec *)

\* C1: after key R, a rebuild that fails leaves the previous Program undeleted,
\* current and owned by main(), whose loop goes on to the next draw.
C1_FailedReloadKeepsProgram ==
    (ret.op = "main:reload" /\ ~ret.ok) =>
        /\ LiveProgram(gl, ret.old)
        /\ gl.progCur = ret.old
        /\ programs = <<ret.old>>
        /\ pc = "loop"

\* C4: no current binding names an object that was deleted: each of the four slots
\* holds 0 or the name of an object whose deletion was never requested.
C4_NoDeletedNameBound ==
    /\ gl.arrayBuf # 0 => gl.buf[gl.arrayBuf].st # "free"
    /\ gl.vao[gl.vaoCur].elem # 0 => gl.buf[gl.vao[gl.vaoCur].elem].st # "free"
    /\ gl.vaoCur # 0 => gl.vao[gl.vaoCur].st # "free"
    /\ gl.progCur # 0 => LiveProgram(gl, gl.progCur)

\* the calls that bind or configure buffers and vertex arrays
SetupCalls ==
    {"GenBuffers", "BindBuffer", "BufferData", "DeleteBuffers", "GenVertexArrays",
     "BindVertexArray", "DeleteVertexArrays", "EnableVertexAttribArray", "VertexAttribPointer"}

\* C11: every frame of main() ends in one accepted draw of 3 indices of type
\* UNSIGNED_INT, issued with the vertex array of the setup current, each of its
\* three attribute slots enabled and reading the vertex buffer that holds the 3
\* uploaded vertices, and its element buffer the index buffer that holds 0, 1, 2;
\* between the setup and the draw no call binds or configures anything.
C11_DrawFindsTriangle ==
    /\ ret.op = "main:frame" =>
         LET draw == gl.calls[Len(gl.calls)]
         IN  /\ Fs(gl.calls) = <<"Uniform1f", "ClearColor", "Clear", "DrawElements">>
             /\ draw.ok
             /\ draw.a.count = 3 /\ draw.a.type = "UNSIGNED_INT" /\ draw.a.mode = "TRIANGLES"
             /\ draw.a.vao = vaos[1] /\ draw.a.vao # 0
             /\ draw.a.elem = ibos[1]
             /\ \A a \in Attribs : /\ gl.vao[vaos[1]].attr[a].enabled
                                   /\ gl.vao[vaos[1]].attr[a].buf = vbos[1]
             /\ gl.buf[vbos[1]] = [st |-> "object", data |-> MainVertices,
                                   size |-> 3 * SizeOfVertex]
             /\ gl.buf[ibos[1]] = [st |-> "object", data |-> MainIndices, size |-> 3 * U32Size]
             /\ vbos[1] # ibos[1]
    /\ (pc = "loop" /\ ret.op # "main:ibo") =>
         \A i \in 1 .. Len(gl.calls) : gl.calls[i].f \notin SetupCalls

C11_Witness ==
    /\ ret.op = "main:frame" /\ ret.time = 2
    /\ gl.calls[1].ok

\* C12: Program::set issues one gl::UseProgram with the program's id, which the
\* driver accepts; right after, the program slot holds that id (one name, of a
\* program that exists and is linked), and the program that was current before is
\* current no more.
C12_SetMakesCurrent ==
    /\ gl.progCur \in Names \cup {0}
    /\ ret.op = "Program::set" =>
         /\ gl.calls = <<[f |-> "UseProgram", a |-> ret.id, ok |-> TRUE]>>
         /\ gl.progCur = ret.id
         /\ IsProgram(gl, ret.id) /\ gl.linked[ret.id]
         /\ ret.cur # ret.id => gl.progCur # ret.cur

C12_Witness ==
    /\ ret.op = "Program::set"
    /\ ret.cur \notin {0, ret.id}
    /\ LiveProgram(gl, ret.cur)

\* the layout Vertex::desc registers for slot a, read from buffer b
DescSlot(a, b) ==
    [enabled |-> TRUE, buf |-> b, size |-> VertexFields[a + 1], stride |-> SizeOfVertex,
     offset |-> OffsetOf(a + 1)]

\* the calls of Vao::set: the bind, then enable and register for slots 0, 1, 2
VaoSetCalls ==
    <<"BindVertexArray", "EnableVertexAttribArray", "VertexAttribPointer",
      "EnableVertexAttribArray", "VertexAttribPointer",
      "EnableVertexAttribArray", "VertexAttribPointer">>

\* C13 as claimed: Vao::set makes the vertex array current, registers every slot
\* against whatever is in the array-buffer slot, also nothing, binds no buffer and
\* leaves the array-buffer and the element-buffer slot as they were.
C13_SetKeepsBufferSlots ==
    ret.op = "Vao::set" =>
        /\ gl.vaoCur = ret.id
        /\ \A a \in Attribs : gl.vao[ret.id].attr[a] = DescSlot(a, ret.before.arrayBuf)
        /\ \A i \in 1 .. Len(gl.calls) : gl.calls[i].f # "BindBuffer"
        /\ gl.arrayBuf = ret.before.arrayBuf
        /\ Bound(gl, "ELEMENT_ARRAY_BUFFER") = Bound(ret.before, "ELEMENT_ARRAY_BUFFER")

\* C13, amended: Vao::set makes the vertex array current and then enables each of
\* the slots 0, 1, 2 and registers its layout against the buffer in the
\* array-buffer slot, whichever it is; with no buffer there the driver takes the
\* registration of slot 0 (offset 0) only and rejects those of slots 1 and 2, which
\* keep what they had.  It binds no buffer and changes no buffer, no other vertex
\* array and not the array-buffer slot; the element buffer in effect afterwards is
\* the one this vertex array recorded, not the one in effect before.
C13_SetRegistersAgainstBound ==
    ret.op = "Vao::set" =>
        LET b   == ret.before
            was == b.vao[ret.id].attr
            now == gl.vao[ret.id].attr
        IN  /\ Fs(gl.calls) = VaoSetCalls
            /\ gl.calls[1].a = ret.id /\ gl.calls[1].ok
            /\ gl.vaoCur = ret.id
            /\ \A a \in Attribs :
                 IF b.arrayBuf # 0 \/ a = 0
                 THEN now[a] = DescSlot(a, b.arrayBuf) /\ gl.calls[2 * a + 3].ok
                 ELSE now[a] = [was[a] EXCEPT !.enabled = TRUE] /\ ~gl.calls[2 * a + 3].ok
            /\ gl.arrayBuf = b.arrayBuf
            /\ gl.buf = b.buf
            /\ \A v \in DOMAIN gl.vao : v # ret.id => gl.vao[v] = b.vao[v]
            /\ Bound(gl, "ELEMENT_ARRAY_BUFFER") = b.vao[ret.id].elem
            /\ gl.progCur = b.progCur

C13_Witness ==
    /\ ret.op = "Vao::set"
    /\ ret.before.arrayBuf # 0
    /\ ret.before.vaoCur # ret.id
    /\ Bound(gl, "ELEMENT_ARRAY_BUFFER") # Bound(ret.before, "ELEMENT_ARRAY_BUFFER")

\* C14: every uniform update of the main loop (u_time in each frame, u_resolution
\* on a resize) is issued while the program its Uniform was resolved against
\* exists, is not deleted and is the current program.
C14_UpdatesHitResolvedProgram ==
    /\ ret.op = "main:frame" =>
         /\ LiveProgram(gl, resolved[2].prog)
         /\ gl.progCur = resolved[2].prog
    /\ ret.op = "main:resized" =>
         /\ LiveProgram(gl, resolved[1].prog)
         /\ gl.progCur = resolved[1].prog

\* C15: after a create_program that returns Err, whichever build failed, none of
\* the shader and program objects the call created exists any more and main's
\* programs are as before; after one that returns Ok the returned Program is the
\* one value that owns an object of the call, its program exists, is not deleted
\* and is still linked after the two Shader values were dropped (their objects
\* stay attached to it, deletion pending).
C15_CreateProgramRollsBack ==
    ret.op = "create_program" =>
        /\ 0 \notin ret.made
        /\ ~ret.ok =>
             /\ \A n \in ret.made : gl.kind[n] = "free"
             /\ ret.made \cap Range(programs) = {}
             /\ ret.id = 0
        /\ ret.ok =>
             /\ Cardinality(ret.made) = 3
             /\ ret.id \in ret.made
             /\ LiveProgram(gl, ret.id) /\ gl.linked[ret.id]
             /\ ret.made \cap Range(programs) = {ret.id}
             /\ ret.made \cap Range(shaders) = {}
             /\ gl.attached[ret.id] = ret.made \ {ret.id}
             /\ \A n \in ret.made \ {ret.id} : ~LiveShader(gl, n)
             /\ Fs(SubSeq(gl.calls, Len(gl.calls) - 1, Len(gl.calls))) =
                   <<"DeleteShader", "DeleteShader">>

C15_Witness ==
    /\ ret.op = "create_program" /\ ~ret.ok
    /\ Cardinality(ret.made) = 3
    /\ programs # <<>>

\* the objects a driver call names, by name space; 0 names nothing
Named(c) ==
    LET one(space, id) == IF id = 0 THEN {} ELSE {<<space, id>>}
    IN  CASE c.f \in {"ShaderSource", "CompileShader", "GetShaderInfoLog", "DeleteShader",
                      "LinkProgram", "GetProgramInfoLog", "DeleteProgram", "UseProgram"}
               -> one("object", c.a)
          [] c.f \in {"GetShaderiv", "GetProgramiv", "GetUniformLocation"} -> one("object", c.a[1])
          [] c.f = "AttachShader" -> one("object", c.a[1]) \cup one("object", c.a[2])
          [] c.f = "BindBuffer" -> one("buffer", c.a[2])
          [] c.f = "DeleteBuffers" -> one("buffer", c.a)
          [] c.f \in {"BindVertexArray", "DeleteVertexArrays"} -> one("vertex array", c.a)
          [] OTHER -> {}

IsDelete(c) == c.f \in {"DeleteShader", "DeleteProgram", "DeleteBuffers", "DeleteVertexArrays"}

\* the object exists in context g / exists and its deletion was not requested
Exists(g, x) ==
    CASE x[1] = "object" -> g.kind[x[2]] # "free"
      [] x[1] = "buffer" -> g.buf[x[2]].st # "free"
      [] OTHER -> g.vao[x[2]].st # "free"
Undeleted(g, x) == Exists(g, x) /\ (x[1] = "object" => ~g.flagged[x[2]])

\* one step of main(): every call that names an object is accepted, names one that
\* was created in this step or was undeleted before it, and comes after no delete
\* of that object in this step
C16_StepAccounts ==
    \A i \in 1 .. Len(gl'.calls) :
        LET c == gl'.calls[i]
        IN  \A x \in Named(c) :
              /\ c.ok
              /\ Exists(gl, x) => Undeleted(gl, x)
              /\ \A j \in 1 .. i - 1 : ~(IsDelete(gl'.calls[j]) /\ x \in Named(gl'.calls[j]))

\* nothing is left undeleted
C16_AllDeleted ==
    /\ \A n \in Names : ~Undeleted(gl, <<"object", n>>)
    /\ \A b \in BufNames : ~Exists(gl, <<"buffer", b>>)
    /\ \A v \in VaoNames : ~Exists(gl, <<"vertex array", v>>)

\* C16: in every run of main(), also one a failed reload or a failed unwrap ends,
\* every object gets one delete call, accepted, for a name whose deletion was not
\* requested before, no call names an object after its delete call, and when the
\* run is over every buffer and vertex array is gone and the deletion of every
\* shader and program was requested.
C16_EveryNameDeletedOnce ==
    /\ [][C16_StepAccounts]_vars
    /\ [](pc = "done" => C16_AllDeleted)

C16_Witness ==
    /\ pc = "done" /\ ret.after = "exit"
    /\ gl.progCur # 0 /\ gl.flagged[gl.progCur]
    /\ \E n \in Names : n < gl.progCur /\ gl.kind[n] = "free"

\* C17: Vbo::set puts its buffer into the array-buffer slot and gives that buffer
\* a new content; Ibo::set does the same with the element-buffer slot.  The other
\* three slots, every other buffer, the attribute slots of every vertex array and
\* the shaders and programs stay as they were.
C17_UploadTouchesOwnRole ==
    ret.op \in {"Vbo::set", "Ibo::set"} =>
        LET b    == ret.before
            slot == IF ret.op = "Vbo::set" THEN 1 ELSE 2
        IN  /\ Slots(gl) = [Slots(b) EXCEPT ![slot] = ret.id]
            /\ \A n \in BufNames : n # ret.id => gl.buf[n] = b.buf[n]
            /\ gl.vao = IF ret.op = "Vbo::set" THEN b.vao
                        ELSE [b.vao EXCEPT ![b.vaoCur].elem = ret.id]
            /\ State(gl) = [b EXCEPT !.buf = gl.buf, !.vao = gl.vao, !.arrayBuf = gl.arrayBuf]
            /\ Fs(gl.calls) = <<"BindBuffer", "BufferData">>
            /\ gl.calls[1].ok /\ gl.calls[2].ok

C17_Witness ==
    /\ ret.op = "Ibo::set"
    /\ Bound(ret.before, "ELEMENT_ARRAY_BUFFER") \notin {0, ret.id}
    /\ ret.before.vaoCur # 0
    /\ ret.before.buf[ret.id].st = "object"

\* C18: Vertex::desc sends, for the slots 0, 1, 2, the component counts 2, 3, 2,
\* the byte offsets 0, 8, 20 and the stride 28; with a vertex buffer bound the
\* vertex array registers exactly that, each field ends before the next one begins
\* and the last one within the stride; Vbo::set sends Len(data) * 28 bytes.
C18_LayoutMatchesVertex ==
    /\ ret.op = "Vao::set" =>
         LET at  == gl.vao[ret.id].attr
             end(a) == at[a].offset + 4 * at[a].size
         IN  /\ gl.calls[3].a = <<0, 2, 28, 0>>
             /\ gl.calls[5].a = <<1, 3, 28, 8>>
             /\ gl.calls[7].a = <<2, 2, 28, 20>>
             /\ ret.before.arrayBuf # 0 =>
                  /\ \A a \in Attribs : at[a].stride = 28 /\ at[a].enabled
                  /\ <<at[0].size, at[1].size, at[2].size>> = <<2, 3, 2>>
                  /\ <<at[0].offset, at[1].offset, at[2].offset>> = <<0, 8, 20>>
                  /\ end(0) <= at[1].offset /\ end(1) <= at[2].offset /\ end(2) <= at[2].stride
    /\ ret.op = "Vbo::set" =>
         /\ gl.calls[2].a = <<"ARRAY_BUFFER", Len(ret.data) * 28>>
         /\ gl.buf[ret.id].size = Len(ret.data) * 28

C18_Witness ==
    /\ ret.op = "Vao::set"
    /\ ret.before.arrayBuf # 0
    /\ ret.before.buf[ret.before.arrayBuf].size = 28

====
